---- MODULE Spec2Model ----
(***************************************************************************)
(* The S-C lexer (lexFile and its scanners) as a state machine.            *)
(*                                                                         *)
(* The source buffer is a sequence of one-character strings; a pointer     *)
(* into it is a 1-based index, the pointer value NULL is 0.  The byte the  *)
(* lexer writes after the file contents (buf[bytes] = '\0') is NUL.  What  *)
(* lies in memory after that terminator is not the program's: a read of it *)
(* is undefined behaviour, modelled by `tail`, an arbitrary bounded run of *)
(* bytes that is only chosen when the cursor first leaves the buffer, and  *)
(* by a fault when the cursor leaves the tail as well.                     *)
(*                                                                         *)
(* One action is one iteration of the dispatch loop of lexFile with the    *)
(* scanner call it makes.  A scanFunction call is the exception: it scans  *)
(* its arguments with one scanForTokens call after the other, and each of  *)
(* those calls is a step of its own, taken while the call is on `stack`.   *)
(***************************************************************************)
EXTENDS Integers, Sequences, FiniteSets, TLC

----------------------------------------------------------------------------
(* Bounds of the model *)

\* longest file drawn from the lexical alphabet
MaxLen == 4
\* longest file drawn from the operator alphabet
MaxOpLen == 4
\* longest argument text appended to "f(" / subscript text appended to "a["
MaxArgs == 5
\* longest text of the string argument of a call f("...")
MaxStr == 3
\* tokens after which a scan that makes no progress is cut off
MaxCount == 10
\* identifiers of the longest file of the long family ("a a a ... ")
MaxTokens == 129
\* longest text appended to an identifier run
MaxAfter == 3
\* longest argument text of a call f(...) drawn from the division alphabet
MaxSlash == 3
\* most fraction digits of a float literal whose value is compared
MaxFraction == 3

----------------------------------------------------------------------------
(* Characters *)

NUL == "NUL"
OOB == "OOB"

Digit == {"0", "1", "2", "3", "4", "5", "6", "7", "8", "9"}
Letter == {"a", "b", "c", "d", "e", "f", "g", "h", "i", "j", "k", "l", "m",
           "n", "o", "p", "q", "r", "s", "t", "u", "v", "w", "x", "y", "z",
           "A", "B", "C", "D", "E", "F", "G", "H", "I", "J", "K", "L", "M",
           "N", "O", "P", "Q", "R", "S", "T", "U", "V", "W", "X", "Y", "Z"}

isdigit(c) == c \in Digit
isalpha(c) == c \in Letter
isalnum(c) == isalpha(c) \/ isdigit(c)

DigitVal(c) == CHOOSE n \in 0..9 : <<"0", "1", "2", "3", "4", "5", "6", "7", "8", "9">>[n + 1] = c

\* *(p): the byte at index i; outside the modelled memory the read has no
\* defined value
Rd(mem, i) == IF i >= 1 /\ i <= Len(mem) THEN mem[i] ELSE OOB

Text(mem, s, n) == [i \in 1..n |-> Rd(mem, s + i - 1)]

----------------------------------------------------------------------------
(* Tables *)

validTripleOps == << <<"<", "<", "=">>, <<">", ">", "=">> >>

validDoubleOps ==
    << <<"=", "=">>, <<"<", "=">>, <<">", "=">>, <<"!", "=">>, <<"&", "&">>,
       <<"|", "|">>, <<"+", "+">>, <<"-", "-">>, <<"+", "=">>, <<"-", "=">>,
       <<"*", "=">>, <<"%", "=">>, <<"&", "=">>, <<"|", "=">>, <<"^", "=">>,
       <<"<", "<">>, <<">", ">">>, <<"-", ">">> >>

\* sizeof counts the string's terminator, so the table has 22 entries
validSingleOps ==
    <<"+", "-", "*", "%", "=", "<", ">", "!", "&", "|", "~", "^", ".",
      "(", ")", "{", "}", "[", "]", ";", ",", NUL>>

validKeywords ==
    << <<"i", "n", "t">>, <<"f", "l", "o", "a", "t">>, <<"c", "h", "a", "r">>,
       <<"b", "o", "o", "l">>, <<"v", "o", "i", "d">>, <<"i", "f">>,
       <<"e", "l", "s", "e">>, <<"f", "o", "r">>, <<"w", "h", "i", "l", "e">>,
       <<"b", "r", "e", "a", "k">>,
       <<"c", "o", "n", "t", "i", "n", "u", "e">>,
       <<"r", "e", "t", "u", "r", "n">>, <<"c", "o", "n", "s", "t">>,
       <<"s", "t", "a", "t", "i", "c">>,
       <<"n", "u", "l", "l", "p", "t", "r">>, <<"N", "U", "L", "L">> >>

MAX_KEYWORD_LEN == 8

strInArray(str, arr) == \E i \in 1..Len(arr) : arr[i] = str

charInArray(c, arr) == \E i \in 1..Len(arr) : arr[i] = c

----------------------------------------------------------------------------
(* Tokens and scanner results *)

Tok(type, line, col, lexeme, length, val) ==
    [type |-> type, line |-> line, col |-> col, lexeme |-> lexeme,
     length |-> length, val |-> val]

EmptyToken(line, col) == Tok("EMPTY", line, col, 0, 0, 0)

\* What a scanner call leaves behind: the cursor and column it wrote back,
\* the token it returned, the tokens it appended itself (out), and
\*   fault : it read a byte outside the modelled memory
\*   call  : the function form it has entered and not yet returned from
\*   stray : number of increments it made to the int after *colPtr
\*   log   : the scanner calls made, innermost last
NoCall == [active |-> FALSE, argsEnd |-> 0, col |-> 0, tok |-> EmptyToken(0, 0)]

Res(bp, col, tok) ==
    [bp |-> bp, col |-> col, tok |-> tok, out |-> <<>>, fault |-> FALSE,
     call |-> NoCall, stray |-> 0, log |-> <<>>]

Fault(bp, col, line) == [Res(bp, col, EmptyToken(line, col)) EXCEPT !.fault = TRUE]

Ev(sc, at, to, type) == [sc |-> sc, at |-> at, to |-> to, type |-> type]

Logged(r, sc, at) == [r EXCEPT !.log = <<Ev(sc, at, r.bp, r.tok.type)>> \o r.log]

----------------------------------------------------------------------------
(* Literal scanners *)

RECURSIVE LitLoop(_, _, _)
\* The while loop of scanStrLiteral / scanCharLiteral from cursor p with
\* closing quote q: where it stops and why.  A backslash advances the cursor
\* twice, whatever the byte after it is.
LitLoop(mem, p, q) ==
    LET c == Rd(mem, p) IN
    IF c = OOB THEN [p |-> p, how |-> "oob"]
    ELSE IF c = q THEN [p |-> p, how |-> "quote"]
    ELSE IF c = NUL THEN [p |-> p, how |-> "nul"]
    ELSE IF c = "\\" THEN LitLoop(mem, p + 2, q)
    ELSE LitLoop(mem, p + 1, q)

\* ScanLiteral with the closing quote left out of the token's length
ScanLiteralShort(mem, bp, col, line, q, type) ==
    LET l == LitLoop(mem, bp + 1, q)
        startCol == col
    IN  IF l.how = "oob" THEN Fault(l.p, col + (l.p - bp), line)
        ELSE IF l.how = "nul"
             THEN Res(l.p, col + (l.p - bp), EmptyToken(line, startCol))
        ELSE Res(l.p + 1, col + (l.p + 1 - bp),
                 Tok(type, line, startCol, bp, l.p - bp, 0))

ScanLiteral(mem, bp, col, line, q, type) ==
    LET l == LitLoop(mem, bp + 1, q)
        startCol == col
    IN  IF l.how = "oob" THEN Fault(l.p, col + (l.p - bp), line)
        ELSE IF l.how = "nul"
             THEN Res(l.p, col + (l.p - bp), EmptyToken(line, startCol))
        ELSE Res(l.p + 1, col + (l.p + 1 - bp),
                 Tok(type, line, startCol, bp, l.p + 1 - bp, 0))

scanCharLiteral(mem, bp, col, line) ==
    Logged(ScanLiteral(mem, bp, col, line, "'", "CHAR_LITERAL"), "char", bp)

scanStrLiteral(mem, bp, col, line) ==
    Logged(ScanLiteral(mem, bp, col, line, "\"", "STR_LITERAL"), "str", bp)

RECURSIVE DigitsEnd(_, _)
\* first index at or after p that holds no digit
DigitsEnd(mem, p) == IF isdigit(Rd(mem, p)) THEN DigitsEnd(mem, p + 1) ELSE p

RECURSIVE Accumulate(_, _, _, _)
\* tokenValue = tokenValue * 10 + (*cur - '0') over [cur, end)
Accumulate(mem, cur, end, tokenValue) ==
    IF cur < end
    THEN Accumulate(mem, cur + 1, end, tokenValue * 10 + DigitVal(Rd(mem, cur)))
    ELSE tokenValue

RECURSIVE Ulp(_, _)
\* spacing of the floats around v >= 0 (24-bit significand)
Ulp(v, u) == IF v \div u < 16777216 THEN u ELSE Ulp(v, 2 * u)

\* (float)v stored into the int field val: v rounded to the nearest float,
\* ties to even
FloatOfInt(v) ==
    LET u == Ulp(v, 1)
        q == v \div u
        r == v % u
    IN  IF 2 * r < u THEN q * u
        ELSE IF 2 * r > u THEN (q + 1) * u
        ELSE IF q % 2 = 0 THEN q * u ELSE (q + 1) * u

\* strtof(start) stored into the int field val: the fraction is dropped
FloatToIntVal(mem, start) ==
    FloatOfInt(Accumulate(mem, start, DigitsEnd(mem, start), 0))

\* bp is at the dot.  "*(colPtr)++" steps the local pointer, not the column:
\* the column is never advanced here and every later (*colPtr)++ writes the
\* int after the caller's column variable.
scanFloatLiteral(mem, bp, start, col, startCol, line) ==
    LET d == DigitsEnd(mem, bp + 1)
        e == IF Rd(mem, d) = "f" \/ Rd(mem, d) = "F" THEN d + 1 ELSE d
        r == Res(e, col, Tok("FLOAT_LITERAL", line, startCol, start, e - start,
                             FloatToIntVal(mem, start)))
    IN  Logged([r EXCEPT !.stray = e - (bp + 1)], "float", start)

scanIntLiteral(mem, bp, col, line) ==
    LET e == DigitsEnd(mem, bp) IN
    IF Rd(mem, e) = "."
    THEN scanFloatLiteral(mem, e, bp, col + (e - bp), col, line)
    ELSE Logged(Res(e, col + (e - bp),
                    Tok("INT_LITERAL", line, col, bp, e - bp,
                        FloatOfInt(Accumulate(mem, bp, e, 0)))), "int", bp)

----------------------------------------------------------------------------
(* Operator / delimiter scanner *)

OpChars == {"+", "-", "*", "%", "=", "<", ">", "!", "&", "|", "^", "~"}
DelimChars == {"(", ")", "{", "}", "[", "]", ";", ","}

\* scanOpDelim with the 2-character table tried before the 3-character one
scanOpDelimShortFirst(mem, bp, col, line) ==
    LET c0 == Rd(mem, bp)
        c1 == Rd(mem, bp + 1)
        c2 == Rd(mem, bp + 2)
        op(n) == Res(bp + n, col + n, Tok("OPERATOR", line, col, bp, n, 0))
    IN  Logged(
        IF c0 \in OpChars
        THEN IF c0 # NUL /\ c1 # NUL
                /\ strInArray(<<c0, c1>>, validDoubleOps) THEN op(2)
             ELSE IF c0 # NUL /\ c1 # NUL /\ c2 # NUL
                     /\ strInArray(<<c0, c1, c2>>, validTripleOps) THEN op(3)
             ELSE IF c0 # NUL THEN op(1)
             ELSE Res(bp, col, EmptyToken(line, col))
        ELSE IF c0 \in DelimChars
        THEN Res(bp + 1, col + 1, Tok("DELIMITER", line, col, bp, 1, 0))
        ELSE Res(bp, col, EmptyToken(line, col)), "opdelim", bp)

scanOpDelim(mem, bp, col, line) ==
    LET c0 == Rd(mem, bp)
        c1 == Rd(mem, bp + 1)
        c2 == Rd(mem, bp + 2)
        op(n) == Res(bp + n, col + n, Tok("OPERATOR", line, col, bp, n, 0))
    IN  Logged(
        IF c0 \in OpChars
        THEN IF c0 # NUL /\ c1 # NUL /\ c2 # NUL
                /\ strInArray(<<c0, c1, c2>>, validTripleOps) THEN op(3)
             ELSE IF c0 # NUL /\ c1 # NUL
                     /\ strInArray(<<c0, c1>>, validDoubleOps) THEN op(2)
             ELSE IF c0 # NUL THEN op(1)
             ELSE Res(bp, col, EmptyToken(line, col))
        ELSE IF c0 \in DelimChars
        THEN Res(bp + 1, col + 1, Tok("DELIMITER", line, col, bp, 1, 0))
        ELSE Res(bp, col, EmptyToken(line, col)), "opdelim", bp)

----------------------------------------------------------------------------
(* Structural scanners and the identifier scanner *)

RECURSIVE SkipSpaces(_, _)
SkipSpaces(mem, p) == IF Rd(mem, p) = " " THEN SkipSpaces(mem, p + 1) ELSE p

RECURSIVE ArrLoop(_, _, _)
\* the depth loop of scanArray from cursor p
ArrLoop(mem, p, bracketDepth) ==
    LET c == Rd(mem, p) IN
    IF bracketDepth = 0 THEN [p |-> p, how |-> "closed"]
    ELSE IF c = OOB THEN [p |-> p, how |-> "oob"]
    ELSE IF c = NUL THEN [p |-> p, how |-> "nul"]
    ELSE IF c = "[" THEN ArrLoop(mem, p + 1, bracketDepth + 1)
    ELSE IF c = "]" THEN ArrLoop(mem, p + 1, bracketDepth - 1)
    ELSE ArrLoop(mem, p + 1, bracketDepth)

RECURSIVE ScanArrayFrom(_, _, _, _, _, _)
\* bp is at a '['
ScanArrayFrom(mem, bp, start, col, startCol, line) ==
    LET l == ArrLoop(mem, bp + 1, 1)
        end == SkipSpaces(mem, l.p)
    IN  IF l.how = "oob" THEN Fault(l.p, col + (l.p - bp), line)
        ELSE IF l.how = "nul"
             THEN Res(l.p, col + (l.p - bp), EmptyToken(line, startCol))
        ELSE IF Rd(mem, end) = "["
             THEN ScanArrayFrom(mem, end, start, col + (end - bp), startCol, line)
        ELSE Res(end, col + (end - bp),
                 Tok("ARRAY", line, startCol, start, end - start, 0))

scanArray(mem, bp, start, col, startCol, line) ==
    Logged(ScanArrayFrom(mem, bp, start, col, startCol, line), "array", bp)

RECURSIVE FnLoop(_, _, _, _, _)
\* the depth loop of scanFunction from cursor p.  A quote opens or closes a
\* literal when the byte before it is not a backslash.
FnLoop(mem, p, bracketDepth, isString, isChar) ==
    LET c == Rd(mem, p)
        prev == Rd(mem, p - 1)
        tglS == c = "\"" /\ prev # "\\" /\ ~isChar
        tglC == ~tglS /\ c = "'" /\ prev # "\\" /\ ~isString
        s == IF tglS THEN ~isString ELSE isString
        ch == IF tglC THEN ~isChar ELSE isChar
    IN  IF c = OOB THEN [p |-> p, how |-> "oob"]
        ELSE IF s \/ ch
             THEN IF c = NUL THEN [p |-> p, how |-> "nulInLiteral"]
                  ELSE FnLoop(mem, p + 1, bracketDepth, s, ch)
        ELSE IF c = NUL THEN [p |-> p, how |-> "nul"]
        ELSE IF c = "(" THEN FnLoop(mem, p + 1, bracketDepth + 1, s, ch)
        ELSE IF c = ")"
             THEN IF bracketDepth - 1 = 0 THEN [p |-> p, how |-> "closed"]
                  ELSE FnLoop(mem, p + 1, bracketDepth - 1, s, ch)
        ELSE FnLoop(mem, p + 1, bracketDepth, s, ch)

\* scanFunction without the '(' Delimiter
scanFunctionSilent(mem, bp, start, col, startCol, line) ==
    LET argsStart == bp + 1
        l == FnLoop(mem, bp + 1, 1, FALSE, FALSE)
        colAt == col + (l.p - bp)
        argsEnd == l.p - 1
        functionToken == Tok("FUNCTION", line, startCol, start, (l.p + 1) - start, 0)
        base == IF l.how = "oob" THEN Fault(l.p, colAt, line)
                ELSE IF l.how = "nulInLiteral" THEN Res(l.p, colAt, EmptyToken(line, colAt))
                ELSE IF l.how = "nul" THEN Res(l.p, colAt, EmptyToken(line, startCol))
                ELSE [Res(argsStart, colAt, EmptyToken(line, colAt))
                         EXCEPT !.call = [active |-> TRUE, argsEnd |-> argsEnd,
                                          col |-> colAt, tok |-> functionToken]]
    IN  Logged(base, "function", bp)

\* bp is at the '('.  The scanner appends the '(' Delimiter, runs the depth
\* loop to the closing ')' and then scans the arguments with a cursor and a
\* column of its own (inner, dummyCol), one scanForTokens call after the
\* other.  The result is the state at the start of that argument scan: the
\* frame (call) holds what scanFunction needs when the argument scan is over.
scanFunction(mem, bp, start, col, startCol, line) ==
    LET oBracketToken == Tok("DELIMITER", line, startCol, bp, 1, 0)
        argsStart == bp + 1
        l == FnLoop(mem, bp + 1, 1, FALSE, FALSE)
        colAt == col + (l.p - bp)
        argsEnd == l.p - 1
        functionToken == Tok("FUNCTION", line, startCol, start, (l.p + 1) - start, 0)
        base == IF l.how = "oob" THEN Fault(l.p, colAt, line)
                ELSE IF l.how = "nulInLiteral" THEN Res(l.p, colAt, EmptyToken(line, colAt))
                ELSE IF l.how = "nul" THEN Res(l.p, colAt, EmptyToken(line, startCol))
                ELSE [Res(argsStart, colAt, EmptyToken(line, colAt))
                         EXCEPT !.call = [active |-> TRUE, argsEnd |-> argsEnd,
                                          col |-> colAt, tok |-> functionToken]]
    IN  Logged([base EXCEPT !.out = <<oBracketToken>>], "function", bp)

\* the end of scanFunction, once inner > argsEnd: the cursor and column it
\* writes back to its caller
FunctionEnd(mem, frame) ==
    LET end == SkipSpaces(mem, frame.argsEnd + 2) IN
    Res(end, frame.col + 2 + (end - (frame.argsEnd + 2)), frame.tok)

RECURSIVE IdentEnd(_, _)
IdentEnd(mem, p) ==
    IF isalnum(Rd(mem, p)) \/ Rd(mem, p) = "_" THEN IdentEnd(mem, p + 1) ELSE p

\* Classify with the function check made for keywords too
ClassifyKeywordCalls(mem, start, end, col, line) ==
    LET startCol == col
        length == end - start
        keyword == Text(mem, start, length)
        isKeyword == length <= MAX_KEYWORD_LEN /\ strInArray(keyword, validKeywords)
        c0 == Rd(mem, end)
        c1 == Rd(mem, end + 1)
        spaced(ch) == c0 = " " /\ c1 # NUL /\ c1 = ch
        at == IF c0 = " " THEN end + 1 ELSE end
        colAt == col + (at - start)
    IN  IF c0 = "[" \/ spaced("[")
        THEN scanArray(mem, at, start, colAt, startCol, line)
        ELSE IF c0 = "(" \/ spaced("(")
        THEN scanFunction(mem, at, start, colAt, startCol, line)
        ELSE IF length <= MAX_KEYWORD_LEN
                /\ (keyword = <<"t", "r", "u", "e">>
                    \/ keyword = <<"f", "a", "l", "s", "e">>)
        THEN Res(end, col + length,
                 Tok("BOOL_LITERAL", line, startCol, start, length, 0))
        ELSE IF isKeyword
        THEN Res(end, col + length,
                 Tok("KEYWORD", line, startCol, start, length, 0))
        ELSE Res(end, col + length,
                 Tok("IDENTIFIER", line, startCol, start, length, 0))

\* Classify with keywords of MAX_KEYWORD_LEN characters left out
ClassifyShortKeywords(mem, start, end, col, line) ==
    LET startCol == col
        length == end - start
        keyword == Text(mem, start, length)
        isKeyword == length < MAX_KEYWORD_LEN /\ strInArray(keyword, validKeywords)
        c0 == Rd(mem, end)
        c1 == Rd(mem, end + 1)
        spaced(ch) == c0 = " " /\ c1 # NUL /\ c1 = ch
        at == IF c0 = " " THEN end + 1 ELSE end
        colAt == col + (at - start)
    IN  IF c0 = "[" \/ spaced("[")
        THEN scanArray(mem, at, start, colAt, startCol, line)
        ELSE IF (c0 = "(" \/ spaced("(")) /\ ~isKeyword
        THEN scanFunction(mem, at, start, colAt, startCol, line)
        ELSE IF length <= MAX_KEYWORD_LEN
                /\ (keyword = <<"t", "r", "u", "e">>
                    \/ keyword = <<"f", "a", "l", "s", "e">>)
        THEN Res(end, col + length,
                 Tok("BOOL_LITERAL", line, startCol, start, length, 0))
        ELSE IF isKeyword
        THEN Res(end, col + length,
                 Tok("KEYWORD", line, startCol, start, length, 0))
        ELSE Res(end, col + length,
                 Tok("IDENTIFIER", line, startCol, start, length, 0))

\* Classify with a tab taken for the one space before a bracket
ClassifyTab(mem, start, end, col, line) ==
    LET startCol == col
        length == end - start
        keyword == Text(mem, start, length)
        isKeyword == length <= MAX_KEYWORD_LEN /\ strInArray(keyword, validKeywords)
        c0 == Rd(mem, end)
        c1 == Rd(mem, end + 1)
        spaced(ch) == c0 \in {" ", "\t"} /\ c1 # NUL /\ c1 = ch
        at == IF c0 \in {" ", "\t"} THEN end + 1 ELSE end
        colAt == col + (at - start)
    IN  IF c0 = "[" \/ spaced("[")
        THEN scanArray(mem, at, start, colAt, startCol, line)
        ELSE IF (c0 = "(" \/ spaced("(")) /\ ~isKeyword
        THEN scanFunction(mem, at, start, colAt, startCol, line)
        ELSE IF length <= MAX_KEYWORD_LEN
                /\ (keyword = <<"t", "r", "u", "e">>
                    \/ keyword = <<"f", "a", "l", "s", "e">>)
        THEN Res(end, col + length,
                 Tok("BOOL_LITERAL", line, startCol, start, length, 0))
        ELSE IF isKeyword
        THEN Res(end, col + length,
                 Tok("KEYWORD", line, startCol, start, length, 0))
        ELSE Res(end, col + length,
                 Tok("IDENTIFIER", line, startCol, start, length, 0))

\* the classification of the run [start, end), the cursor being at end
Classify(mem, start, end, col, line) ==
    LET startCol == col
        length == end - start
        keyword == Text(mem, start, length)
        isKeyword == length <= MAX_KEYWORD_LEN /\ strInArray(keyword, validKeywords)
        c0 == Rd(mem, end)
        c1 == Rd(mem, end + 1)
        spaced(ch) == c0 = " " /\ c1 # NUL /\ c1 = ch
        at == IF c0 = " " THEN end + 1 ELSE end
        colAt == col + (at - start)
    IN  IF c0 = "[" \/ spaced("[")
        THEN scanArray(mem, at, start, colAt, startCol, line)
        ELSE IF (c0 = "(" \/ spaced("(")) /\ ~isKeyword
        THEN scanFunction(mem, at, start, colAt, startCol, line)
        ELSE IF length <= MAX_KEYWORD_LEN
                /\ (keyword = <<"t", "r", "u", "e">>
                    \/ keyword = <<"f", "a", "l", "s", "e">>)
        THEN Res(end, col + length,
                 Tok("BOOL_LITERAL", line, startCol, start, length, 0))
        ELSE IF isKeyword
        THEN Res(end, col + length,
                 Tok("KEYWORD", line, startCol, start, length, 0))
        ELSE Res(end, col + length,
                 Tok("IDENTIFIER", line, startCol, start, length, 0))

IdentLogged(r, start, end) ==
    [r EXCEPT !.log = <<Ev("ident", start, end, r.tok.type)>> \o r.log]

IdentifierRun(mem, start, end, col, line) ==
    IF start # end
    THEN IdentLogged(Classify(mem, start, end, col, line), start, end)
    ELSE Logged(Res(start, col, EmptyToken(line, col)), "ident", start)

scanIdentifier(mem, bp, col, line) ==
    IdentifierRun(mem, bp, IdentEnd(mem, bp), col, line)

----------------------------------------------------------------------------
(* scanForTokens *)

\* emitToken(&tok) when cond holds: the returned token goes after the tokens
\* the scanner appended itself
EmitIf(r, cond) == IF cond /\ ~r.fault
                   THEN [r EXCEPT !.out = r.out \o <<r.tok>>] ELSE r

\* if (tok.lexeme) emitToken(&tok)
EmitLexeme(t) == EmitIf(t, t.tok.lexeme # 0)

\* if (opDelimToken.type != END_OF_FILE) emitToken(&opDelimToken); else skip
EmitOpDelim(t) ==
    IF t.tok.type # "END_OF_FILE" THEN EmitIf(t, TRUE)
    ELSE [t EXCEPT !.bp = t.bp + 1, !.col = t.col + 1]

Skip(bp, col, line) == Res(bp + 1, col + 1, EmptyToken(line, col))

scanForTokens(mem, bp, col, line) ==
    LET c == Rd(mem, bp)
        c1 == Rd(mem, bp + 1)
    IN  IF c = OOB THEN Fault(bp, col, line)
        ELSE IF isdigit(c) THEN EmitLexeme(scanIntLiteral(mem, bp, col, line))
        ELSE IF c = "." /\ c1 # NUL /\ isdigit(c1)
        THEN EmitLexeme(scanFloatLiteral(mem, bp, bp, col, col, line))
        ELSE IF c = "\"" THEN EmitLexeme(scanStrLiteral(mem, bp, col, line))
        ELSE IF c = "'" THEN EmitLexeme(scanCharLiteral(mem, bp, col, line))
        ELSE IF isalpha(c) \/ c = "_"
        THEN EmitLexeme(scanIdentifier(mem, bp, col, line))
        ELSE IF charInArray(c, validSingleOps)
        THEN EmitOpDelim(scanOpDelim(mem, bp, col, line))
        ELSE Skip(bp, col, line)

----------------------------------------------------------------------------
(* The dispatch loop of lexFile: one iteration *)

RECURSIVE LineCommentEnd(_, _)
\* while (*bp && *bp != '\n') bp++
LineCommentEnd(mem, p) ==
    IF Rd(mem, p) \in {NUL, "\n", OOB} THEN p ELSE LineCommentEnd(mem, p + 1)

RECURSIVE CommentLoop(_, _, _, _)
\* while (*bp && *(bp+1) && !(*bp == '*' && *(bp+1) == '/')) from cursor p
CommentLoop(mem, p, line, col) ==
    LET c == Rd(mem, p)
        c1 == Rd(mem, p + 1)
    IN  IF c # OOB /\ c # NUL /\ c1 # NUL /\ ~(c = "*" /\ c1 = "/")
        THEN IF c1 = "\n" THEN CommentLoop(mem, p + 1, line + 1, 0)
             ELSE CommentLoop(mem, p + 1, line, col + 1)
        ELSE [p |-> p, line |-> line, col |-> col]

\* What one iteration leaves behind; kind names the branch taken, fatal the
\* "Unterminated comment" return.
Step(kind, bp, line, col, r) ==
    [kind |-> kind, bp |-> bp, line |-> line, col |-> col, tok |-> r.tok,
     out |-> r.out, fatal |-> FALSE, fault |-> r.fault, call |-> r.call,
     stray |-> r.stray, log |-> r.log]

Plain(kind, bp, line, col) == Step(kind, bp, line, col, Res(bp, col, EmptyToken(line, col)))

\* the step made by a scanner call that left r behind
StepOf(kind, r, line) == Step(kind, r.bp, line, r.col, r)

BlockComment(mem, bp, line, col) ==
    LET l == CommentLoop(mem, bp + 2, line, col + 2) IN
    IF Rd(mem, bp + 2) = NUL
    THEN [Plain("block", bp + 2, line, col + 2) EXCEPT !.fatal = TRUE]
    ELSE IF Rd(mem, l.p) = OOB
    THEN [Plain("block", l.p, l.line, l.col) EXCEPT !.fault = TRUE]
    ELSE IF Rd(mem, l.p) # NUL THEN Plain("block", l.p + 2, l.line, l.col + 2)
    ELSE Plain("block", l.p, l.line, l.col)

Division(mem, bp, line, col) ==
    LET n == IF Rd(mem, bp + 1) # NUL /\ Rd(mem, bp + 1) = "=" THEN 2 ELSE 1
        opToken == Tok("OPERATOR", line, col, bp, n, 0)
    IN  [Plain("div", bp + n, line, col + n) EXCEPT !.tok = opToken,
                                                    !.out = <<opToken>>]

\* the body of while (*bp) for a cursor at a byte that is not the terminator
Iteration(mem, bp, line, col) ==
    LET c == Rd(mem, bp)
        c1 == Rd(mem, bp + 1)
    IN  IF c = "\n" THEN Plain("ws", bp + 1, line + 1, 0)
        ELSE IF c = " " \/ c = "\t" THEN Plain("ws", bp + 1, line, col + 1)
        ELSE IF c = "/"
        THEN IF c1 # NUL /\ c1 = "/"
             THEN LET e == LineCommentEnd(mem, bp)
                  IN  [Plain("line", e, line, col + (e - bp))
                          EXCEPT !.fault = Rd(mem, e) = OOB]
             ELSE IF c1 # NUL /\ c1 = "*" THEN BlockComment(mem, bp, line, col)
             ELSE Division(mem, bp, line, col)
        ELSE StepOf("scan", scanForTokens(mem, bp, col, line), line)

----------------------------------------------------------------------------
(* State *)

VARIABLES
    pc,     \* "start", "scan", "returned" (lexFile), "done" (main), "exited"
            \* (exit(1)), "crashed" (fault)
    src,    \* the file contents read into buf
    tail,   \* the bytes after buf's terminator, once the cursor has left buf
    bp, line, col,  \* the cursor and column of the running scan: bp and col
            \* of lexFile, or inner and dummyCol of the innermost scanFunction
    stack,  \* the scanFunction calls in progress, innermost first
    tb,     \* the static TokenBuffer: buf, count, capacity, src
    toks,   \* the tokens stored in tb.buf
    heap,   \* the two allocations: "none", "live" or "freed"
    fatal,  \* lexFile returned on one of its error paths
    last,   \* the last step of the scan (history)
    msg,    \* the error message lexFile printed, "" when none
    reads   \* main: the state of the token buffer and of the source buffer
            \* when it printed the tokens, "none" for a buffer it did not read

vars == <<pc, src, tail, bp, line, col, stack, tb, toks, heap, fatal, last,
          msg, reads>>

DefaultCapacity == 128

Mem == src \o <<NUL>> \o tail.bytes

Terminator == Len(src) + 1

NoStep == [from |-> 0, depth |-> 0, st |-> Plain("none", 0, 0, 0)]

NoReads == [tok |-> "none", src |-> "none"]

----------------------------------------------------------------------------
(* Inputs *)

Words(alphabet, n) == UNION {[1..k -> alphabet] : k \in 1..n}

LexAlphabet == {"a", "1", " ", "\n", "/", "*", "\"", "'", "\\", "."}
OpAlphabet == {"<", "=", ">", "-", "/", "+", "\t"}
ArgAlphabet == {"a", "(", ")", "\"", "'", "\\"}
DimAlphabet == {"1", "[", "]", " ", "\""}
StrAlphabet == {"a", "(", ")", "\\"}
AfterAlphabet == {"a", "(", ")", "[", "]", " ", "\t", "\n"}
SlashAlphabet == {"a", "/", "*", "=", " "}

\* identifier runs: keywords (one of the longest length), the two boolean
\* literals' neighbours and runs one character away from a keyword
Runs ==
    {<<"i", "f">>, <<"i", "n", "t">>, <<"N", "U", "L", "L">>,
     <<"c", "o", "n", "t", "i", "n", "u", "e">>,
     <<"c", "o", "n", "t", "i", "n", "u", "e", "s">>,
     <<"i", "f", "f">>, <<"t", "r", "u", "e">>}

\* integer literals around the largest integer every float holds (2^24)
IntLiterals ==
    {<<"0">>, <<"0", "4", "2">>, <<"9", "9", "9", "9", "9", "9">>,
     <<"1", "6", "7", "7", "7", "2", "1", "6">>,
     <<"1", "6", "7", "7", "7", "2", "1", "7">>,
     <<"1", "6", "7", "7", "7", "2", "1", "9">>,
     <<"1", "0", "0", "0", "0", "0", "0", "0", "0", "1">>}

\* float literals: with and without the suffix, the leading-dot form, one
\* without fraction digits
FloatLiterals ==
    {<<"1", ".", "5">>, <<"2", ".", "2", "5", "f">>, <<".", "5">>,
     <<"0", ".", "7", "5", "F">>, <<"3", ".">>, <<"1", "2", ".", "0">>}

\* calls whose arguments hold an array form, a literal or a call that may
\* reach the closing parenthesis
ArgForms ==
    {<<"f", "(", "a", "[", ")", "]">>, <<"f", "(", "a", "[", "1", "]", ")">>,
     <<"f", "(", "a", "[", "1", "]", " ", ")", "a">>,
     <<"f", "(", "a", " ", ")", "a">>,
     <<"f", "(", "\"", "\\", "\\", "\"", ")", "a">>,
     <<"f", "(", "'", "\\", "'", "'", ")">>,
     <<"f", "(", "a", ",", "1", ".", "5", ")">>}

\* n identifiers, a space after each
Long(n) == [i \in 1..(2 * n) |-> IF i % 2 = 1 THEN "a" ELSE " "]

Inputs ==
    Words(LexAlphabet, MaxLen)
    \cup Words(OpAlphabet, MaxOpLen)
    \cup {<<"f", "(">> \o w : w \in Words(ArgAlphabet, MaxArgs)}
    \cup {<<"a", "[">> \o w : w \in Words(DimAlphabet, MaxArgs)}
    \cup {<<"f", "(", "\"">> \o w \o <<"\"", ")">> : w \in Words(StrAlphabet, MaxStr)}
    \cup {r \o w : r \in Runs, w \in Words(AfterAlphabet, MaxAfter)}
    \cup {<<"f", "(">> \o w \o <<")">> : w \in Words(SlashAlphabet, MaxSlash)}
    \cup Runs
    \cup IntLiterals
    \cup FloatLiterals
    \cup ArgForms
    \cup {Long(MaxTokens - 1), Long(MaxTokens)}

\* what may follow the terminator in memory: nothing mapped, or a few bytes
Tails == {<<>>, <<NUL>>, <<"x", NUL>>, <<"\"", NUL>>}

----------------------------------------------------------------------------
(* emitToken *)

\* Grown with the growth one append late
GrownLate(count, capacity) == IF count > capacity THEN capacity * 2 ELSE capacity

\* capacity after one append at the given count
Grown(count, capacity) == IF count = capacity THEN capacity * 2 ELSE capacity

RECURSIVE emitTokens(_, _)
\* tb after emitToken for every token of out, in order
emitTokens(t, out) ==
    IF out = <<>> THEN t
    ELSE emitTokens([t EXCEPT !.capacity = Grown(t.count, t.capacity),
                              !.count = t.count + 1], Tail(out))

----------------------------------------------------------------------------
(* lexFile up to the dispatch loop *)

Init ==
    /\ pc = "start"
    /\ src = <<>>
    /\ tail = [known |-> FALSE, bytes |-> <<>>]
    /\ bp = 0 /\ line = 0 /\ col = 0
    /\ stack = <<>>
    /\ tb = [buf |-> "NULL", count |-> 0, capacity |-> 0, src |-> "NULL"]
    /\ toks = <<>>
    /\ heap = [srcBuf |-> "none", tokBuf |-> "none"]
    /\ fatal = FALSE
    /\ last = NoStep
    /\ msg = ""
    /\ reads = NoReads

Return(isFatal) ==
    /\ pc' = "returned"
    /\ fatal' = isFatal

\* fopen fails: return tb as it is
FopenFails ==
    /\ pc = "start"
    /\ msg' = "Error opening file"
    /\ Return(TRUE)
    /\ UNCHANGED <<src, tail, bp, line, col, stack, tb, toks, heap, last, reads>>

\* fileSize <= 0
EmptyFile ==
    /\ pc = "start"
    /\ tb' = [tb EXCEPT !.buf = "NULL", !.src = "NULL"]
    /\ msg' = "Empty file or error reading file size"
    /\ Return(TRUE)
    /\ UNCHANGED <<src, tail, bp, line, col, stack, toks, heap, last, reads>>

\* malloc(fileSize + 1) fails; the token buffer was requested all the same
AllocSrcFails ==
    /\ pc = "start"
    /\ \E tokOk \in BOOLEAN :
          heap' = [heap EXCEPT !.tokBuf = IF tokOk THEN "live" ELSE "none"]
    /\ tb' = [tb EXCEPT !.capacity = DefaultCapacity, !.buf = "NULL", !.src = "NULL"]
    /\ msg' = "Memory allocation failed"
    /\ Return(TRUE)
    /\ UNCHANGED <<src, tail, bp, line, col, stack, toks, last, reads>>

\* the token buffer's malloc fails: free(buf)
AllocTokFails ==
    /\ pc = "start"
    /\ heap' = [heap EXCEPT !.srcBuf = "freed"]
    /\ tb' = [tb EXCEPT !.capacity = DefaultCapacity, !.buf = "NULL", !.src = "NULL"]
    /\ msg' = "Memory allocation failed"
    /\ Return(TRUE)
    /\ UNCHANGED <<src, tail, bp, line, col, stack, toks, last, reads>>

\* both allocations succeed and the file is read and terminated
ReadFile ==
    /\ pc = "start"
    /\ \E s \in Inputs : src' = s
    /\ heap' = [srcBuf |-> "live", tokBuf |-> "live"]
    /\ tb' = [buf |-> "tokBuf", count |-> 0, capacity |-> DefaultCapacity,
              src |-> "srcBuf"]
    /\ toks' = <<>>
    /\ bp' = 1 /\ line' = 1 /\ col' = 0
    /\ pc' = "scan"
    /\ UNCHANGED <<tail, stack, fatal, last, msg, reads>>

----------------------------------------------------------------------------
(* The scan *)

InFunction == stack # <<>>

\* inner > argsEnd: the argument scan of the innermost scanFunction is over
ArgsDone == InFunction /\ bp > Head(stack).argsEnd

\* the step the scan is about to take: an iteration of the dispatch loop, a
\* scanForTokens call of an argument scan, or the end of a scanFunction call
Cur ==
    IF ArgsDone THEN StepOf("ret", EmitLexeme(FunctionEnd(Mem, Head(stack))), line)
    ELSE IF InFunction THEN StepOf("inner", scanForTokens(Mem, bp, col, line), line)
    ELSE Iteration(Mem, bp, line, col)

\* the loop test or the step c reads a byte outside the modelled memory
ReadsOutside(c) ==
    IF ArgsDone THEN FALSE
    ELSE Rd(Mem, bp) = OOB \/ ((InFunction \/ Rd(Mem, bp) # NUL) /\ c.fault)

\* the scan goes on; one that has stored MaxCount tokens and whose last step
\* did not move the cursor is followed no further
Running == pc = "scan" /\ (tb.count < MaxCount \/ last.st.bp > last.from)

\* the cursor has left the buffer: the bytes it meets are whatever is there
RevealTail ==
    /\ Running /\ ReadsOutside(Cur) /\ ~tail.known
    /\ \E t \in Tails : tail' = [known |-> TRUE, bytes |-> t]
    /\ UNCHANGED <<pc, src, bp, line, col, stack, tb, toks, heap, fatal, last, msg, reads>>

\* the cursor has left the mapped memory
SegFault ==
    /\ Running /\ ReadsOutside(Cur) /\ tail.known
    /\ pc' = "crashed"
    /\ UNCHANGED <<src, tail, bp, line, col, stack, tb, toks, heap, fatal, last, msg, reads>>

\* eofToken without its type
eofTokenUntyped == Tok("EMPTY", line, col, 0, 0, 0)

eofToken == Tok("END_OF_FILE", line, col, 0, 0, 0)

\* *bp == '\0': the loop ends, the EndOfFile token is appended, tb returned
LoopExit ==
    /\ Running /\ ~InFunction /\ Rd(Mem, bp) = NUL
    /\ toks' = toks \o <<eofToken>>
    /\ tb' = emitTokens(tb, <<eofToken>>)
    /\ Return(FALSE)
    /\ UNCHANGED <<src, tail, bp, line, col, stack, heap, last, msg, reads>>

\* the cursor, the column and the tokens after step c; a scanFunction call
\* that starts its argument scan is pushed, one that ends is popped
Advance(c) ==
    /\ bp' = c.bp /\ col' = c.col
    /\ toks' = toks \o c.out
    /\ tb' = emitTokens(tb, c.out)
    /\ stack' = IF c.call.active THEN <<c.call>> \o stack
                ELSE IF c.kind = "ret" THEN Tail(stack) ELSE stack
    /\ last' = [from |-> bp, depth |-> Len(stack), st |-> c]

\* step c is of one of the kinds and is taken
Take(c, kinds) ==
    /\ Running /\ ~ReadsOutside(c)
    /\ InFunction \/ Rd(Mem, bp) # NUL
    /\ c.kind \in kinds
    /\ Advance(c)

\* ... and leaves line as the step computed it
TakeInLine(c, kinds) == Take(c, kinds) /\ line' = c.line

Whitespace ==
    /\ TakeInLine(Cur, {"ws"})
    /\ UNCHANGED <<pc, src, tail, heap, fatal, msg, reads>>

LineComment ==
    /\ TakeInLine(Cur, {"line"})
    /\ UNCHANGED <<pc, src, tail, heap, fatal, msg, reads>>

SkipClosed(c) == ~c.fatal /\ TakeInLine(c, {"block"})

SkipBlockComment ==
    /\ SkipClosed(Cur)
    /\ UNCHANGED <<pc, src, tail, heap, fatal, msg, reads>>

Unterminated(c) == c.fatal /\ TakeInLine(c, {"block"})

\* "/*" right before the terminator: free(buf); return tb
UnterminatedComment ==
    /\ Unterminated(Cur)
    /\ heap' = [heap EXCEPT !.srcBuf = "freed"]
    /\ msg' = "Error: Unterminated comment"
    /\ Return(TRUE)
    /\ UNCHANGED <<src, tail, reads>>

DivisionOperator ==
    /\ TakeInLine(Cur, {"div"})
    /\ UNCHANGED <<pc, src, tail, heap, fatal, msg, reads>>

InColumn(c) == c.stray = 0 /\ TakeInLine(c, {"scan", "inner"})

\* scanForTokens, called by the dispatch loop or by an argument scan, without
\* a write outside its column
Scan ==
    /\ InColumn(Cur)
    /\ UNCHANGED <<pc, src, tail, heap, fatal, msg, reads>>

RECURSIVE StrideDigits(_, _)
\* the digit loop of scanFloatLiteral when every (*colPtr)++ advances the
\* cursor as well
StrideDigits(mem, p) == IF isdigit(Rd(mem, p)) THEN StrideDigits(mem, p + 2) ELSE p

\* where that scanFloatLiteral call leaves the cursor, the literal starting
\* at index start
StridedEnd(mem, start) ==
    LET d == StrideDigits(mem, DigitsEnd(mem, start) + 1) IN
    IF Rd(mem, d) = "f" \/ Rd(mem, d) = "F" THEN d + 2 ELSE d

\* step c of an argument scan, a float scan, when the int after dummyCol is
\* the low half of inner: the cursor moves two bytes where the scanner
\* advances it by one, and the token's length is taken from that cursor
Strided(c) ==
    LET start == c.tok.lexeme
        e == StridedEnd(Mem, start)
        t == [c.tok EXCEPT !.length = e - start]
    IN  [c EXCEPT !.bp = e, !.tok = t, !.out = <<t>>,
                  !.log = <<Ev("float", start, e, t.type)>>]

\* ... and the scanner reads no byte outside the modelled memory on the way
StridedInside(c) ==
    StrideDigits(Mem, DigitsEnd(Mem, c.tok.lexeme) + 1) <= Len(Mem)

OutOfColumn(c) ==
    /\ c.stray > 0
    /\ \E hit \in (IF InFunction THEN {"dead", "inner", "fault"}
                                 ELSE {"dead", "line", "fault"}) :
          /\ hit = "inner" => StridedInside(c)
          /\ Take(IF hit = "inner" THEN Strided(c) ELSE c, {"scan", "inner"})
          /\ line' = IF hit = "line" THEN c.line + c.stray ELSE c.line
          /\ pc' = IF hit = "fault" THEN "crashed" ELSE pc

\* scanForTokens scanned a float with a fraction: the int after the caller's
\* column was incremented stray times.  What that int is depends on the
\* frame layout: nothing the scan reads again, or line (in lexFile), or the
\* cursor inner (in scanFunction), or something whose corruption ends the
\* process.
ScanStrayWrite ==
    /\ OutOfColumn(Cur)
    /\ UNCHANGED <<src, tail, heap, fatal, msg, reads>>

\* the argument scan is over: scanFunction returns its FunctionForm token to
\* scanIdentifier and scanForTokens appends it
FunctionReturn ==
    /\ TakeInLine(Cur, {"ret"})
    /\ UNCHANGED <<pc, src, tail, heap, fatal, msg, reads>>

\* emitToken for the tokens of out, the realloc of the growth failing: the
\* tokens before it are stored, the capacity is doubled, exit(1)
GrowthFails(out) ==
    /\ Len(out) > tb.capacity - tb.count
    /\ toks' = toks \o SubSeq(out, 1, tb.capacity - tb.count)
    /\ tb' = [tb EXCEPT !.count = tb.capacity, !.capacity = tb.capacity * 2]
    /\ pc' = "exited"

ReallocFailsIn(c) ==
    /\ Running /\ ~ReadsOutside(c)
    /\ InFunction \/ Rd(Mem, bp) # NUL
    /\ GrowthFails(c.out)

\* a step of the scan appends to a full token buffer and realloc fails
ReallocFails ==
    /\ ReallocFailsIn(Cur)
    /\ UNCHANGED <<src, tail, bp, line, col, stack, heap, fatal, last, msg, reads>>

\* the EndOfFile token is appended to a full token buffer and realloc fails
ReallocFailsAtEnd ==
    /\ Running /\ ~InFunction /\ Rd(Mem, bp) = NUL
    /\ GrowthFails(<<eofToken>>)
    /\ UNCHANGED <<src, tail, bp, line, col, stack, heap, fatal, last, msg, reads>>

----------------------------------------------------------------------------
(* main, the consumer of lexFile's result *)

\* free(p) for a buffer in the given state
Freed(state) == IF state = "live" THEN "freed" ELSE "freedTwice"

\* if (tb.buf == NULL || tb.src == NULL) { if (tb.src) free(tb.src); return -1; }
MainRejects ==
    /\ pc = "returned"
    /\ tb.buf = "NULL" \/ tb.src = "NULL"
    /\ heap' = IF tb.src # "NULL"
                THEN [heap EXCEPT !.srcBuf = Freed(heap.srcBuf)] ELSE heap
    /\ \E end \in (IF tb.src # "NULL" /\ heap.srcBuf # "live"
                    THEN {"done", "crashed"} ELSE {"done"}) : pc' = end
    /\ UNCHANGED <<src, tail, bp, line, col, stack, tb, toks, fatal, last, msg, reads>>

\* the state of the two buffers when main prints tb.count tokens: a token
\* with a span makes printf read the source buffer; what a released token
\* buffer holds is not known, so its tokens may have spans
Printed ==
    [tok |-> IF tb.count > 0 THEN heap.tokBuf ELSE "none",
     src |-> IF tb.count > 0
                /\ (heap.tokBuf # "live" \/ \E i \in DOMAIN toks : toks[i].length > 0)
             THEN heap.srcBuf ELSE "none"]

\* main prints the tokens, then free(tb.buf); free(tb.src).  Reading or
\* freeing a released buffer is undefined: the process goes on or dies.
MainConsumes ==
    /\ pc = "returned"
    /\ tb.buf # "NULL" /\ tb.src # "NULL"
    /\ reads' = Printed
    /\ heap' = [srcBuf |-> Freed(heap.srcBuf), tokBuf |-> Freed(heap.tokBuf)]
    /\ \E end \in (IF heap.srcBuf = "live" /\ heap.tokBuf = "live"
                    THEN {"done"} ELSE {"done", "crashed"}) : pc' = end
    /\ UNCHANGED <<src, tail, bp, line, col, stack, tb, toks, fatal, last, msg>>

\* a caller that is done with the result calls lexFile again: the static tb
\* and the heap are as the first call and the caller left them
CallAgain ==
    /\ pc = "done"
    /\ pc' = "start"
    /\ src' = <<>>
    /\ tail' = [known |-> FALSE, bytes |-> <<>>]
    /\ bp' = 0 /\ line' = 0 /\ col' = 0
    /\ stack' = <<>>
    /\ toks' = <<>>
    /\ fatal' = FALSE
    /\ last' = NoStep
    /\ msg' = ""
    /\ reads' = NoReads
    /\ UNCHANGED <<tb, heap>>

Next ==
    \/ FopenFails
    \/ EmptyFile
    \/ AllocSrcFails
    \/ AllocTokFails
    \/ ReadFile
    \/ RevealTail
    \/ SegFault
    \/ LoopExit
    \/ Whitespace
    \/ LineComment
    \/ SkipBlockComment
    \/ UnterminatedComment
    \/ DivisionOperator
    \/ Scan
    \/ ScanStrayWrite
    \/ FunctionReturn
    \/ ReallocFails
    \/ ReallocFailsAtEnd
    \/ MainRejects
    \/ MainConsumes
    \/ CallAgain

Spec == Init /\ [][Next]_vars

----------------------------------------------------------------------------
(* Properties *)

EndOfFileCount == Cardinality({i \in DOMAIN toks : toks[i].type = "END_OF_FILE"})

\* the scanner calls of the last step
Calls == {last.st.log[i] : i \in DOMAIN last.st.log}

\* C1: every iteration of the dispatch loop and every scanForTokens call
\* leaves the cursor at least one character further than it found it.
C1_EveryStepAdvances ==
    last.st.kind \in {"ws", "line", "block", "div", "scan", "inner"}
        => last.st.bp > last.from

\* C2: a scan that returns without a fatal error has stored exactly one
\* EndOfFile token, as the last token; no EndOfFile token is stored while the
\* scan is still running.
C2_OneEndOfFileLast ==
    /\ (pc = "returned" /\ ~fatal) =>
          /\ toks # <<>>
          /\ toks[Len(toks)].type = "END_OF_FILE"
          /\ EndOfFileCount = 1
    /\ pc = "scan" => EndOfFileCount = 0

\* a scan has returned whose last step produced no token (an unrecognized
\* character or an unterminated literal ended the buffer) after other tokens
C2_Witness ==
    /\ pc = "returned" /\ ~fatal
    /\ last.st.kind = "scan" /\ last.st.out = <<>>
    /\ Len(toks) >= 2

\* C3: no stored token has kind Empty, and every stored token other than
\* EndOfFile has a span of at least one character inside the source buffer.
C3_StoredTokensHaveSpans ==
    \A i \in DOMAIN toks :
        /\ toks[i].type # "EMPTY"
        /\ toks[i].type # "END_OF_FILE" =>
              /\ toks[i].length >= 1
              /\ toks[i].lexeme >= 1
              /\ toks[i].lexeme + toks[i].length - 1 <= Len(src)

\* a "*/" lies in the buffer at or after index p
ClosesAfter(p) == \E i \in p..(Len(src) - 1) : src[i] = "*" /\ src[i + 1] = "/"

\* C4: when a block comment is opened and no "*/" follows it in the buffer,
\* the scan has stopped with the fatal error: nothing is scanned after it and
\* no EndOfFile token is stored.
C4_UnterminatedCommentIsFatal ==
    (last.st.kind = "block" /\ ~ClosesAfter(last.from + 2)) =>
        /\ pc = "returned" /\ fatal
        /\ bp <= Terminator
        /\ EndOfFileCount = 0

\* C5: a scan that returned on a fatal error returned a TokenBuffer whose buf
\* and src are both NULL.
C5_FatalResultIsNull ==
    (pc = "returned" /\ fatal) => (tb.buf = "NULL" /\ tb.src = "NULL")

\* no byte of the buffer after index at is the quote q
Unclosed(at, q) == \A i \in (at + 1)..Len(src) : src[i] # q

\* C6: a literal scanner called on an opening quote that no later quote of
\* the buffer can close returns Empty with the cursor at the terminator, the
\* step stores no token, and the scan goes on to its EndOfFile token.
C6_UnterminatedLiteralIsLocal ==
    \A e \in Calls :
        (/\ e.sc \in {"str", "char"}
         /\ e.at <= Len(src)
         /\ Unclosed(e.at, IF e.sc = "str" THEN "\"" ELSE "'")) =>
            /\ e.type = "EMPTY"
            /\ e.to = Terminator
            /\ last.st.out = <<>>
            /\ pc \in {"scan", "returned"}
            /\ pc = "returned" =>
                  ~fatal /\ toks # <<>> /\ toks[Len(toks)].type = "END_OF_FILE"

\* the operators of n characters: the entries of the tables of scanOpDelim,
\* and the two operators the dispatch loop emits itself
OperatorsOfLength(n) ==
    IF n = 3 THEN {validTripleOps[i] : i \in DOMAIN validTripleOps}
    ELSE IF n = 2
    THEN {validDoubleOps[i] : i \in DOMAIN validDoubleOps} \cup {<<"/", "=">>}
    ELSE {<<c>> : c \in OpChars \cup {"/"}}

\* C7: every stored Operator token is an operator of the tables, and no
\* longer operator of the tables is a prefix of the buffer at its position.
C7_LongestOperator ==
    \A i \in DOMAIN toks :
        toks[i].type = "OPERATOR" =>
            /\ toks[i].length \in 1..3
            /\ Text(Mem, toks[i].lexeme, toks[i].length)
                  \in OperatorsOfLength(toks[i].length)
            /\ \A n \in (toks[i].length + 1)..3 :
                  Text(Mem, toks[i].lexeme, n) \notin OperatorsOfLength(n)

\* a 3-character operator is stored whose first two characters are an
\* operator of the 2-character table, and another operator character follows
C7_Witness ==
    \E i \in DOMAIN toks :
        /\ toks[i].type = "OPERATOR" /\ toks[i].length = 3
        /\ Text(Mem, toks[i].lexeme, 2) \in OperatorsOfLength(2)
        /\ Rd(Mem, toks[i].lexeme + 3) \in OpChars

\* the bytes from index p up to index q (excluded) are spaces
Blank(p, q) == \A i \in p..(q - 1) : Rd(Mem, i) = " "

\* the last step was taken by the dispatch loop of lexFile
TopLevel == last.depth = 0 /\ last.st.kind \in {"ws", "line", "block", "div", "scan"}

\* the step passed over [from, bp) as one whitespace character or one comment
SkippedRegion ==
    /\ last.st.out = <<>>
    /\ \/ /\ last.st.kind = "ws"
          /\ Rd(Mem, last.from) \in {" ", "\t", "\n"}
          /\ last.st.bp = last.from + 1
       \/ /\ last.st.kind = "line"
          /\ Rd(Mem, last.from) = "/" /\ Rd(Mem, last.from + 1) = "/"
          /\ last.st.bp >= last.from + 2
          /\ \A i \in last.from..(last.st.bp - 1) : Rd(Mem, i) \notin {"\n", NUL}
       \/ /\ last.st.kind = "block"
          /\ Rd(Mem, last.from) = "/" /\ Rd(Mem, last.from + 1) = "*"
          /\ last.st.bp >= last.from + 2

\* the step stored one token whose span starts at from; spaces fill the rest
\* of [from, bp)
TokenRegion ==
    /\ last.st.kind \in {"div", "scan"} /\ ~last.st.call.active
    /\ last.st.out = <<last.st.tok>>
    /\ last.st.tok.length >= 1
    /\ last.st.tok.lexeme = last.from
    /\ last.st.tok.lexeme + last.st.tok.length <= last.st.bp
    /\ Blank(last.st.tok.lexeme + last.st.tok.length, last.st.bp)

\* the step entered a function form whose span starts at from
FunctionOpened ==
    /\ last.st.kind = "scan" /\ last.st.call.active
    /\ last.st.call.tok.lexeme = last.from

\* the step ended a top-level function form: the FunctionForm token is stored,
\* and spaces fill the text between its span and the cursor
FunctionClosed ==
    /\ last.st.out = <<last.st.tok>>
    /\ last.st.tok.type = "FUNCTION"
    /\ last.st.tok.lexeme + last.st.tok.length <= last.st.bp
    /\ Blank(last.st.tok.lexeme + last.st.tok.length, last.st.bp)

\* the step passed over [from, bp) without a token of its own (the '('
\* Delimiter of a function form that does not close set aside): one
\* character, or the text up to a terminator
DiscardedRegion ==
    /\ last.st.kind = "scan" /\ ~last.st.call.active
    /\ last.st.tok.type = "EMPTY"
    /\ \/ last.st.out = <<>>
       \/ /\ Len(last.st.out) = 1 /\ last.st.out[1].type = "DELIMITER"
          /\ \E e \in Calls : e.sc = "function" /\ e.at = last.st.out[1].lexeme
    /\ last.st.bp > last.from
    /\ last.st.bp = last.from + 1 \/ Rd(Mem, last.st.bp) = NUL

\* the step left the cursor where it was
NothingConsumed == last.st.kind = "scan" /\ last.st.bp = last.from

\* C8 as stated: every step of the dispatch loop passes over one whitespace
\* character or comment, or over the span of the one top-level token it
\* stores (and the spaces after it), so that the spans and the skipped
\* regions follow each other without a gap or an overlap.
C8_SpansReconstructSource ==
    /\ TopLevel => SkippedRegion \/ TokenRegion \/ FunctionOpened
    /\ (last.depth = 1 /\ last.st.kind = "ret") => FunctionClosed

\* C8, amended: ... or over a region it discards without a token: one
\* unrecognized character, or the rest of the buffer after a literal, array
\* form or function form that does not close.  A step that consumes nothing
\* adds no region.
C8_SpansAndDiscardsReconstructSource ==
    /\ TopLevel => \/ SkippedRegion \/ TokenRegion \/ FunctionOpened
                   \/ DiscardedRegion \/ NothingConsumed
    /\ (last.depth = 1 /\ last.st.kind = "ret") => FunctionClosed

\* an unrecognized character was discarded after a token, and a top-level
\* function form was closed before that
C8_Witness ==
    /\ TopLevel /\ DiscardedRegion
    /\ Rd(Mem, last.from) = "\\"
    /\ \E i \in DOMAIN toks : toks[i].type = "FUNCTION"

\* C9: an ArrayForm token is the only token its step stores, its span starts
\* at the identifier the step found the cursor at, and ends at a ']'.
C9_ArraySpanEndsAtBracket ==
    last.st.tok.type = "ARRAY" =>
        /\ last.st.out = <<last.st.tok>>
        /\ last.st.tok.lexeme = last.from
        /\ Rd(Mem, last.st.tok.lexeme + last.st.tok.length - 1) = "]"

RECURSIVE ArgsClose(_, _, _, _)
\* Where the argument list scanned from index p at the given depth closes
\* when its literals are the ones the literal scanners read (0: it does
\* not close), and whether a literal met on the way (paren) holds a ')'.
ArgsClose(mem, p, depth, paren) ==
    LET c == Rd(mem, p)
        l == LitLoop(mem, p + 1, c)
    IN  IF c \in {NUL, OOB} THEN [close |-> 0, paren |-> paren]
        ELSE IF c \in {"\"", "'"}
        THEN IF l.how = "quote"
             THEN ArgsClose(mem, l.p + 1, depth,
                            paren \/ \E i \in (p + 1)..(l.p - 1) : mem[i] = ")")
             ELSE [close |-> 0, paren |-> paren]
        ELSE IF c = "(" THEN ArgsClose(mem, p + 1, depth + 1, paren)
        ELSE IF c = ")"
        THEN IF depth = 1 THEN [close |-> p, paren |-> paren]
             ELSE ArgsClose(mem, p + 1, depth - 1, paren)
        ELSE ArgsClose(mem, p + 1, depth, paren)

\* C10: a scanFunction call whose arguments hold a literal with a ')' in it
\* closes its argument list at the first ')' outside the literals at depth 1,
\* and the FunctionForm span ends there.
C10_LiteralsDoNotCloseArguments ==
    \A e \in Calls :
        e.sc = "function" =>
            LET a == ArgsClose(src \o <<NUL>>, e.at + 1, 1, FALSE)
                f == last.st.call
            IN  (a.close # 0 /\ a.paren) =>
                    /\ f.active
                    /\ f.argsEnd + 1 = a.close
                    /\ f.tok.lexeme + f.tok.length - 1 = a.close

\* the index after the span of token t
End(t) == t.lexeme + t.length

\* the index of the '(' of the function form whose FunctionForm token is t
ParenOf(t) ==
    LET e == IdentEnd(Mem, t.lexeme) IN IF Rd(Mem, e) = " " THEN e + 1 ELSE e

\* the last index of toks below n that holds the Delimiter of index p, 0
\* when there is none
OpenedAt(p, n) ==
    LET S == {i \in 1..(n - 1) : toks[i].type = "DELIMITER" /\ toks[i].lexeme = p}
    IN  IF S = {} THEN 0 ELSE CHOOSE i \in S : \A j \in S : j <= i

\* C11: when a scanFunction call has returned its token, the tokens stored
\* end with the '(' Delimiter of the call, then the sub-tokens of the
\* arguments in source order, none of them the closing ')' as a Delimiter,
\* then the one FunctionForm token, whose span runs from the first character
\* of the name through a ')'.
C11_FunctionFormOrder ==
    (last.st.kind = "ret" /\ pc = "scan") =>
        LET n == Len(toks)
            t == toks[n]
            p == ParenOf(t)
            k == OpenedAt(p, n)
            Subs == (k + 1)..(n - 1)
        IN  /\ t = last.st.tok /\ t.type = "FUNCTION"
            /\ isalpha(Rd(Mem, t.lexeme)) \/ Rd(Mem, t.lexeme) = "_"
            /\ Rd(Mem, p) = "(" /\ Rd(Mem, End(t) - 1) = ")"
            /\ k # 0
            /\ \A i \in k..(n - 1) :
                  ~(toks[i].type = "FUNCTION" /\ toks[i].lexeme = t.lexeme)
            /\ \A i \in Subs :
                  /\ p < toks[i].lexeme /\ toks[i].lexeme < End(t) - 1
                  /\ ~(toks[i].type = "DELIMITER" /\ End(toks[i]) = End(t))
            /\ \A i, j \in Subs :
                  i < j => /\ End(toks[i]) <= End(toks[j])
                           /\ toks[j].type # "FUNCTION"
                                 => toks[i].lexeme < toks[j].lexeme

\* a function form with a function form among its arguments has returned
C11_Witness ==
    /\ last.st.kind = "ret" /\ pc = "scan" /\ last.depth = 1
    /\ Len(toks) >= 5
    /\ toks[Len(toks) - 1].type = "FUNCTION"
    /\ toks[1].type = "DELIMITER"

\* 2^31 - 1, the largest value of an int
MaxInt == 2147483647

\* the base-10 value of the digits token t spans
DecimalValue(t) == Accumulate(Mem, t.lexeme, End(t), 0)

\* C12: the value stored in an IntLiteral token whose digits denote a value
\* of the int range is that value.
C12_IntLiteralValue ==
    \A i \in DOMAIN toks :
        (/\ toks[i].type = "INT_LITERAL"
         /\ End(toks[i]) <= Terminator
         /\ DecimalValue(toks[i]) <= MaxInt) =>
            toks[i].val = DecimalValue(toks[i])

\* the newline characters of the buffer before index p
NewlinesBefore(p) == {j \in 1..(p - 1) : src[j] = "\n"}

\* the index of the first character of the line index p lies in
LineStart(p) ==
    IF NewlinesBefore(p) = {} THEN 1
    ELSE 1 + CHOOSE j \in NewlinesBefore(p) : \A k \in NewlinesBefore(p) : k <= j

\* C13: every stored token that spans text of the buffer has as line 1 plus
\* the number of newlines before its first character, and as column the
\* offset of its first character from the start of its line.
C13_LineAndColumn ==
    \A i \in DOMAIN toks :
        toks[i].lexeme \in 1..Len(src) =>
            /\ toks[i].line = 1 + Cardinality(NewlinesBefore(toks[i].lexeme))
            /\ toks[i].col = toks[i].lexeme - LineStart(toks[i].lexeme)

\* C14: a lexFile call that could not open its file has returned a
\* TokenBuffer whose buf and src are both NULL, whatever calls came before.
C14_OpenFailureIsEmpty ==
    (pc = "returned" /\ msg = "Error opening file") =>
        (tb.buf = "NULL" /\ tb.src = "NULL")

\* C15: a lexFile call in which an allocation failed has returned to its
\* caller (it has not ended the process), the TokenBuffer it returned has
\* buf and src NULL, and no buffer it allocated is still allocated.
C15_AllocationFailureReleases ==
    /\ pc # "exited"
    /\ (pc = "returned" /\ msg = "Memory allocation failed") =>
          /\ tb.buf = "NULL" /\ tb.src = "NULL"
          /\ heap.srcBuf # "live" /\ heap.tokBuf # "live"

\* C16: over lexFile followed by main, neither buffer is released twice, both
\* are released once main is done with a scan that returned a result, and
\* main reads no span of a source buffer that was released.
C16_ReleasedOnce ==
    /\ heap.srcBuf # "freedTwice" /\ heap.tokBuf # "freedTwice"
    /\ (pc = "done" /\ ~fatal) => (heap.srcBuf = "freed" /\ heap.tokBuf = "freed")
    /\ reads.src \in {"none", "live"}

\* the identifier run of scanner call e is a keyword
KeywordRun(e) ==
    /\ e.sc = "ident" /\ e.to > e.at
    /\ strInArray(Text(Mem, e.at, e.to - e.at), validKeywords)

\* ... and '(' follows it, directly or after one space
BeforeParen(e) ==
    \/ Rd(Mem, e.to) = "("
    \/ Rd(Mem, e.to) = " " /\ Rd(Mem, e.to + 1) = "("

\* C17: a scanIdentifier call on a keyword run followed by '(' (directly or
\* after one space) returns a Keyword token spanning the run, which is the
\* only token of the step; scanFunction is not called, and the cursor is
\* left right after the run.  A scanForTokens call that starts at a '('
\* appends the '(' Delimiter and nothing else.
C17_KeywordIsNoFunctionForm ==
    /\ \A i \in DOMAIN last.st.log :
          LET e == last.st.log[i] IN
          (KeywordRun(e) /\ BeforeParen(e)) =>
              /\ e.type = "KEYWORD"
              /\ last.st.tok.type = "KEYWORD"
              /\ last.st.tok.lexeme = e.at /\ last.st.tok.length = e.to - e.at
              /\ last.st.out = <<last.st.tok>>
              /\ last.st.bp = e.to
              /\ ~last.st.call.active
              /\ \A j \in DOMAIN last.st.log : last.st.log[j].sc # "function"
    /\ (last.st.kind \in {"scan", "inner"} /\ Rd(Mem, last.from) = "(") =>
          /\ Len(last.st.out) = 1
          /\ last.st.out[1].type = "DELIMITER"
          /\ last.st.out[1].lexeme = last.from /\ last.st.out[1].length = 1
          /\ last.st.bp = last.from + 1
          /\ ~last.st.call.active

\* the '(' that follows a Keyword after one space has been appended by the
\* dispatch loop, and so has the identifier after it
C17_Witness ==
    /\ pc = "scan" /\ Len(toks) = 3
    /\ toks[1].type = "KEYWORD" /\ toks[2].type = "DELIMITER"
    /\ Rd(Mem, toks[2].lexeme) = "("
    /\ toks[2].lexeme = End(toks[1]) + 1
    /\ toks[3].type = "IDENTIFIER"

RECURSIVE Doubled(_)
\* c is DefaultCapacity times a power of two
Doubled(c) ==
    IF c <= DefaultCapacity THEN c = DefaultCapacity
    ELSE c % 2 = 0 /\ Doubled(c \div 2)

\* C18: lexFile starts the scan with count 0 and capacity 128 and no token
\* stored.  Every step of the scan leaves count equal to the number of tokens
\* stored, count <= capacity and capacity equal to 128 times a power of two,
\* and the tokens stored before the step are the first tokens after it,
\* unchanged: also when the step doubles the capacity.
C18_SinkGrowsByAppending ==
    [][/\ (pc = "start" /\ pc' = "scan") =>
              (tb'.count = 0 /\ tb'.capacity = 128 /\ toks' = <<>>)
       /\ pc = "scan" =>
              /\ Len(toks') >= Len(toks)
              /\ SubSeq(toks', 1, Len(toks)) = toks
              /\ tb'.count = Len(toks')
              /\ tb'.count <= tb'.capacity
              /\ Doubled(tb'.capacity)
              /\ tb'.capacity >= tb.capacity]_vars

\* the append that doubled the capacity has been made
C18_Witness ==
    /\ pc = "scan"
    /\ tb.capacity = 2 * DefaultCapacity /\ tb.count = DefaultCapacity + 1
    /\ Len(toks) = DefaultCapacity + 1
    /\ toks[DefaultCapacity + 1].type = "IDENTIFIER"

\* '[' follows the run of scanner call e, directly or after one space
BeforeBracket(e) ==
    \/ Rd(Mem, e.to) = "["
    \/ Rd(Mem, e.to) = " " /\ Rd(Mem, e.to + 1) = "["

\* the position of that '['
BracketOf(e) == IF Rd(Mem, e.to) = " " THEN e.to + 1 ELSE e.to

\* C19 as stated: a scanIdentifier call on a keyword run returns a Keyword
\* token spanning the run, whatever character follows the run.
C19_KeywordWhateverFollows ==
    \A i \in DOMAIN last.st.log :
        LET e == last.st.log[i] IN
        KeywordRun(e) =>
            /\ e.type = "KEYWORD"
            /\ last.st.tok.lexeme = e.at /\ last.st.tok.length = e.to - e.at
            /\ last.st.out = <<last.st.tok>>

\* C19: a scanIdentifier call on a keyword run (length <= 8) returns a Keyword
\* token spanning the run, the only token of the step, unless '[' follows the
\* run directly or after one space; then scanArray is called at that '['.
C19_KeywordUnlessBracket ==
    \A i \in DOMAIN last.st.log :
        LET e == last.st.log[i] IN
        KeywordRun(e) =>
            /\ e.to - e.at <= MAX_KEYWORD_LEN
            /\ ~BeforeBracket(e) =>
                  /\ e.type = "KEYWORD"
                  /\ last.st.tok.type = "KEYWORD"
                  /\ last.st.tok.lexeme = e.at /\ last.st.tok.length = e.to - e.at
                  /\ last.st.out = <<last.st.tok>>
            /\ BeforeBracket(e) =>
                  \E j \in DOMAIN last.st.log :
                      /\ last.st.log[j].sc = "array"
                      /\ last.st.log[j].at = BracketOf(e)

\* a keyword of MAX_KEYWORD_LEN characters before a ')' has been appended
\* as a Keyword
C19_Witness ==
    /\ pc = "scan" /\ last.st.kind = "scan"
    /\ last.st.tok.type = "KEYWORD" /\ last.st.tok.length = MAX_KEYWORD_LEN
    /\ Rd(Mem, last.st.bp) = ")"
    /\ toks = <<last.st.tok>>

RECURSIVE InLiteral(_, _)
\* position q lies inside a string or char literal that opens at or after
\* position p, the literals being delimited as the literal scanners do
InLiteral(p, q) ==
    IF p >= q THEN FALSE
    ELSE IF Rd(Mem, p) \in {"\"", "'"}
         THEN LET l == LitLoop(Mem, p + 1, Rd(Mem, p)) IN
              IF l.how # "quote" \/ q <= l.p THEN TRUE
              ELSE InLiteral(l.p + 1, q)
    ELSE InLiteral(p + 1, q)

\* C20: the ']' that ends the span of an ArrayForm token does not lie inside
\* a string or char literal of its subscripts.
C20_ArrayIgnoresLiteralBrackets ==
    \A i \in DOMAIN toks :
        (toks[i].type = "ARRAY" /\ End(toks[i]) <= Terminator) =>
            ~InLiteral(ParenOf(toks[i]) + 1, End(toks[i]) - 1)

\* C21: a step whose scanFunction call met the terminator before the depth
\* returned to 0, or inside a literal, stores no token and leaves the cursor
\* at the terminator, so that the next token stored is EndOfFile.
C21_UnclosedFunctionStoresNothing ==
    \A e \in Calls :
        (e.sc = "function" /\ ~last.st.call.active /\ ~last.st.fault) =>
            /\ last.st.out = <<>>
            /\ Rd(Mem, last.st.bp) = NUL

\* the kind and span of every token of out
Spans(out) ==
    [i \in DOMAIN out |->
        [type |-> out[i].type, lexeme |-> out[i].lexeme, length |-> out[i].length]]

\* the scanFunction call whose arguments the last step scanned
ArgFrame == IF last.st.call.active THEN stack[2] ELSE stack[1]

\* the buffer that holds the text before the closing parenthesis of that
\* call and nothing after it
ArgText == SubSeq(Mem, 1, ArgFrame.argsEnd) \o <<NUL>>

\* C22: every scanForTokens call of an argument scan stores the tokens (kind
\* and span) that an iteration of the dispatch loop of lexFile stores at the
\* same cursor when the buffer ends with the argument text, and both leave
\* the cursor at the same place or beyond the argument text.
C22_ArgumentsAsTopLevel ==
    (last.st.kind = "inner" /\ pc = "scan") =>
        LET top == Iteration(ArgText, last.from, last.st.line, 0) IN
        /\ Spans(last.st.out) = Spans(top.out)
        /\ \/ last.st.bp = top.bp
           \/ last.st.bp > ArgFrame.argsEnd /\ top.bp > ArgFrame.argsEnd

\* the scanner sc was called at the bracket after the run of call e
HandedTo(sc, e) == \E a \in Calls : a.sc = sc /\ a.at = BracketOf(e)

\* the run of call e was returned as a token of its own, the only token of
\* the step, and the cursor left right after the run
RunReturned(e) ==
    /\ e.type \in {"IDENTIFIER", "KEYWORD", "BOOL_LITERAL"}
    /\ last.st.tok.type = e.type
    /\ last.st.tok.lexeme = e.at /\ last.st.tok.length = e.to - e.at
    /\ last.st.out = <<last.st.tok>>
    /\ last.st.bp = e.to

\* a scanForTokens call that starts at a bracket stores it as a Delimiter
BracketIsDelimiter ==
    (last.st.kind \in {"scan", "inner"} /\ Rd(Mem, last.from) \in {"(", "["}) =>
        /\ Len(last.st.out) = 1
        /\ last.st.out[1].type = "DELIMITER"
        /\ last.st.out[1].lexeme = last.from /\ last.st.out[1].length = 1

\* C23 as stated: scanIdentifier calls scanArray (resp. scanFunction) exactly
\* when '[' (resp. '(') follows the run directly or after one space;
\* otherwise it returns the run as Identifier, Keyword or BoolLiteral, and a
\* bracket met later is stored as a Delimiter.
C23_HandedExactlyWhenBracketFollows ==
    /\ \A e \in Calls :
          (e.sc = "ident" /\ e.to > e.at) =>
              /\ HandedTo("array", e) <=> BeforeBracket(e)
              /\ HandedTo("function", e) <=> BeforeParen(e)
              /\ (~BeforeBracket(e) /\ ~BeforeParen(e)) => RunReturned(e)
    /\ BracketIsDelimiter

\* C23: scanIdentifier calls scanArray exactly when '[' follows the run
\* directly or after one space, and scanFunction exactly when '(' does and
\* the run is not a keyword; otherwise it returns the run as Identifier,
\* Keyword or BoolLiteral, and a bracket met later is stored as a Delimiter.
C23_HandedWhenBracketFollowsNoKeyword ==
    /\ \A e \in Calls :
          (e.sc = "ident" /\ e.to > e.at) =>
              /\ HandedTo("array", e) <=> BeforeBracket(e)
              /\ HandedTo("function", e) <=> (BeforeParen(e) /\ ~KeywordRun(e))
              /\ (~BeforeBracket(e) /\ ~(BeforeParen(e) /\ ~KeywordRun(e)))
                    => RunReturned(e)
    /\ BracketIsDelimiter

\* an identifier, a tab and a '[': the run was stored as an Identifier and
\* the bracket as a Delimiter
C23_Witness ==
    /\ Len(toks) = 2
    /\ toks[1].type = "IDENTIFIER" /\ toks[2].type = "DELIMITER"
    /\ Rd(Mem, End(toks[1])) = "\t"
    /\ toks[2].lexeme = End(toks[1]) + 1 /\ Rd(Mem, toks[2].lexeme) = "["

RECURSIVE Pow10(_)
Pow10(n) == IF n = 0 THEN 1 ELSE 10 * Pow10(n - 1)

\* fixed-point scale: MaxFraction fraction digits
Scale == Pow10(MaxFraction)

\* the decimal value of the lexeme of float token t, times Scale, for a
\* lexeme of at most MaxFraction fraction digits
FixedPointValue(t) ==
    LET dot == DigitsEnd(Mem, t.lexeme)
        e == DigitsEnd(Mem, dot + 1)
    IN  Accumulate(Mem, t.lexeme, dot, 0) * Scale
        + Accumulate(Mem, dot + 1, e, 0) * Pow10(MaxFraction - (e - (dot + 1)))

\* number of fraction digits of the lexeme of float token t
FractionDigits(t) ==
    LET dot == DigitsEnd(Mem, t.lexeme) IN DigitsEnd(Mem, dot + 1) - (dot + 1)

\* C24: the value stored in a FloatLiteral token is the decimal value of its
\* lexeme, the fraction included (literals of at most MaxFraction fraction
\* digits, values as multiples of 10^-MaxFraction).
C24_FloatLiteralValue ==
    \A i \in DOMAIN toks :
        (/\ toks[i].type = "FLOAT_LITERAL"
         /\ End(toks[i]) <= Terminator
         /\ FractionDigits(toks[i]) <= MaxFraction) =>
            toks[i].val * Scale = FixedPointValue(toks[i])

\* C25: while a scan runs, its cursor (that of lexFile or of an argument scan)
\* lies between the first byte of the buffer and the terminator, and no byte
\* after the terminator has been read.
C25_CursorInsideBuffer ==
    /\ pc = "scan" => bp \in 1..Terminator
    /\ ~tail.known

\* the tokens of out lie strictly between the parentheses of the call of
\* frame f, and the cursor c has not passed its closing parenthesis
InsideArguments(f, out, c) ==
    /\ \A i \in DOMAIN out :
          /\ ParenOf(f.tok) < out[i].lexeme
          /\ End(out[i]) <= f.argsEnd + 1
    /\ c <= f.argsEnd + 1

\* C26: every token stored by a step of an argument scan (a scanForTokens
\* call, or the return of a scanFunction call made by one) has its span
\* between the parentheses of the function form whose arguments are
\* scanned, and the step leaves the cursor at or before the closing ')'.
C26_SubTokensInsideArguments ==
    /\ (pc = "scan" /\ last.st.kind = "inner") =>
          InsideArguments(ArgFrame, last.st.out, last.st.bp)
    /\ (pc = "scan" /\ last.st.kind = "ret" /\ last.depth >= 2) =>
          InsideArguments(stack[1], last.st.out, last.st.bp)

RECURSIVE LiteralsAgree(_, _, _, _)
\* The depth loop of scanFunction from cursor p, open being the index of the
\* opening quote of the literal the loop is in (0 outside literals): every
\* quote at which the loop leaves a literal is the quote at which the
\* literal scanner started at open stops, and a literal the loop never
\* leaves is one the literal scanner does not close either.
LiteralsAgree(mem, p, bracketDepth, open) ==
    LET c == Rd(mem, p)
        prev == Rd(mem, p - 1)
        l == LitLoop(mem, open + 1, Rd(mem, open))
    IN  IF c = OOB THEN TRUE
        ELSE IF open # 0
        THEN IF c = NUL THEN l.how # "quote"
             ELSE IF c = Rd(mem, open) /\ prev # "\\"
             THEN l.how = "quote" /\ l.p = p
                  /\ LiteralsAgree(mem, p + 1, bracketDepth, 0)
             ELSE LiteralsAgree(mem, p + 1, bracketDepth, open)
        ELSE IF c \in {"\"", "'"} /\ prev # "\\"
        THEN LiteralsAgree(mem, p + 1, bracketDepth, p)
        ELSE IF c = NUL THEN TRUE
        ELSE IF c = "(" THEN LiteralsAgree(mem, p + 1, bracketDepth + 1, 0)
        ELSE IF c = ")"
        THEN bracketDepth = 1 \/ LiteralsAgree(mem, p + 1, bracketDepth - 1, 0)
        ELSE LiteralsAgree(mem, p + 1, bracketDepth, 0)

\* C27: in every scanFunction call, the depth loop leaves each literal of
\* the argument list at the quote where scanStrLiteral / scanCharLiteral,
\* started at the literal's opening quote, stops.
C27_ScannersAgreeOnLiteralEnd ==
    \A e \in Calls :
        e.sc = "function" => LiteralsAgree(src \o <<NUL>>, e.at + 1, 1, 0)

====
